---- MODULE Spec2Model ----
(***************************************************************************)
(* Two-pass TOC extraction pipeline of python-server/toc_logic.py:         *)
(* get_structured_data_from_images (one retried call of the extraction     *)
(* capability) and process_pdf (render, windowed discovery, aggregation,   *)
(* verification, consolidation).                                           *)
(*                                                                         *)
(* Python indices are 0-based and kept 0-based in sets of page indices;    *)
(* TLA+ sequences are 1-based, so image_paths[i] of the code is            *)
(* image_paths[i + 1] here.                                                *)
(***************************************************************************)
EXTENDS Integers, Sequences, FiniteSets, TLC

\* ---------------------------------------------------------------- bounds
\* Largest number of rendered pages explored (the code renders at most 20).
MaxPages == 12
\* Largest window size for which the partition is examined besides chunk_size.
MaxChunk == 6
\* How many page counts, from max_pages downwards, the runs over long
\* documents (four windows) explore.
LongPagesSpan == 1
\* Largest number of rendered pages in the runs followed to their end.
MaxPagesLive == 6

\* ------------------------------------------------------ program constants
\* A retry loop that allows one attempt too many.
max_retries_one_more == 3 + 1
max_retries == 3
chunk_size == 5
\* last_page of line 167, max_pages of line 173.
max_pages == 20

\* Concurrent runs of process_pdf in one process; the documents they are
\* given have up to one page more than a window, hence one or two windows.
MaxRuns == 2
MaxPagesTwo == chunk_size + 1

\* ------------------------------------------------------------------ data
Min(a, b) == IF a < b THEN a ELSE b

RECURSIVE Pow2(_)
Pow2(n) == IF n = 0 THEN 1 ELSE 2 * Pow2(n - 1)

\* JSON null / Python None inside parsed data.
Null == "null"

\* BookMetadata objects the capability may answer with.
MetaOne == [book_title |-> "T1", authors |-> Null,
            publishing_house |-> Null, publishing_year |-> Null]
MetaTwo == [book_title |-> "T2", authors |-> Null,
            publishing_house |-> Null, publishing_year |-> "Y2"]
MetaVerify == [book_title |-> "TV", authors |-> "AV",
               publishing_house |-> "HV", publishing_year |-> "YV"]
MetaZero == [book_title |-> Null, authors |-> Null,
             publishing_house |-> Null, publishing_year |-> Null]
MetaThreeA == [book_title |-> "T3", authors |-> "A3",
               publishing_house |-> Null, publishing_year |-> "Y3"]
MetaThreeB == [book_title |-> "T4", authors |-> Null,
               publishing_house |-> "H4", publishing_year |-> "Y4"]
MetaVerifyOther == [book_title |-> "TW", authors |-> Null,
                    publishing_house |-> Null, publishing_year |-> Null]
\* The empty dict {} of line 234.
EmptyDict == [f \in {} |-> Null]

TocEntry(title, page) ==
    [chapter_title |-> title, page_number |-> page, reference_boolean |-> FALSE]

\* ExtractionResult objects (response_schema of line 102).
ExtractionResult(meta, toc) == [metadata |-> meta, toc_entries |-> toc]

\* Texts the capability answers a discovery window with: a schema-conforming
\* JSON object, or a text that is not JSON (cut off, wrapped in prose).
DiscoveryTocs == { <<>>, <<TocEntry("A", 7)>> }
DiscoveryMetas == { MetaOne, MetaTwo }
VerifyTocs == { <<>>, <<TocEntry("A", 20), TocEntry("B", 20), TocEntry("C", 10)>> }

\* A string is modelled by how it was produced:
\*   kind "text"      the response.text of the capability: its JSON value
\*                    (well_formed) or not JSON at all;
\*   kind "exhausted" the literal of line 122;
\*   kind "fatal"     the f-string of line 124 around the message `details';
\*   kind "none"      no string yet.
Text(obj) == [kind |-> "text", well_formed |-> TRUE, obj |-> obj, details |-> <<>>]
Garbled == [kind |-> "text", well_formed |-> FALSE, obj |-> EmptyDict, details |-> <<>>]
ExhaustedStr == [kind |-> "exhausted", well_formed |-> TRUE, obj |-> EmptyDict, details |-> <<>>]
FatalStr(msg) == [kind |-> "fatal", well_formed |-> TRUE, obj |-> EmptyDict, details |-> msg]
NoStr == [kind |-> "none", well_formed |-> FALSE, obj |-> EmptyDict, details |-> <<>>]

DiscoveryTexts ==
    { Text(ExtractionResult(m, t)) : m \in DiscoveryMetas, t \in DiscoveryTocs }
        \cup { Garbled }
VerifyTexts ==
    { Text(ExtractionResult(MetaVerify, t)) : t \in VerifyTocs } \cup { Garbled }

\* The texts answered in the runs over long documents: more metadata
\* objects (0, 2, 3 and 3 fields filled) and more TOC lists.
RichMetas == { MetaZero, MetaTwo, MetaThreeA, MetaThreeB }
\* An answer with TOC entries and no "metadata" key (line 236 reads the
\* key with a default).
WithoutMetadata == [toc_entries |-> << TocEntry("A", 7) >>]
RichDiscoveryTexts ==
    { Text(ExtractionResult(m, t)) : m \in RichMetas, t \in DiscoveryTocs }
        \cup { Text(WithoutMetadata), Garbled }
RichVerifyTocs ==
    { <<>>,
      << TocEntry("P", 50), TocEntry("Q", 10), TocEntry("R", 30) >>,
      << TocEntry("A", 20), TocEntry("B", 20) >>,
      << TocEntry("A", 20), TocEntry("B", 20), TocEntry("C", 10) >>,
      << TocEntry("A", 20), TocEntry("C", 10), TocEntry("A", 20) >> }
RichVerifyTexts ==
    { Text(ExtractionResult(m, t)) :
        m \in { MetaVerify, MetaVerifyOther }, t \in RichVerifyTocs }
        \cup { Garbled }

\* Exception messages, as sequences of pieces: the two markers the code
\* looks for, ordinary characters "x", a double quote and a backslash.
MsgDeadline == << "x", "Deadline Exceeded" >>
MsgUnavailable == << "503", "x" >>
MsgPlain == << "x", "x" >>
MsgQuoted == << "x", "\"", "x", "\"" >>
MsgEscaped == << "\\", "\"" >>
Messages == { MsgDeadline, MsgUnavailable, MsgPlain, MsgQuoted, MsgEscaped }

Contains(msg, piece) == \E k \in 1..Len(msg) : msg[k] = piece

\* ---------------------------------------- get_structured_data_from_images
\* A classification that takes every failure for a retryable one
\* (`... or "503"' instead of `... or "503" in error_str').
IsTransientAlways(error_str) ==
    Contains(error_str, "Deadline Exceeded") \/ TRUE

\* Line 118: the failure is retried iff its text holds one of the markers.
IsTransient(error_str) ==
    Contains(error_str, "Deadline Exceeded") \/ Contains(error_str, "503")

\* A backoff that counts attempts from 1.
BackoffFromOne(attempt) == Pow2(attempt + 1)

\* Line 120: the delay slept after the failure of attempt `attempt' (0-based).
Backoff(attempt) == Pow2(attempt)

\* One running call of get_structured_data_from_images.
\*   image_paths  the argument
\*   attempt      the loop variable of line 106
\*   at           "call" (awaiting the capability, line 109), "sleep"
\*                (awaiting asyncio.sleep, line 120), "done" (returned)
\*   result       the returned string
\*   log          what the call did so far, in order: capability invocations
\*                with the way each ended (and the text answered, if any),
\*                and sleeps with their delay
NewCall(paths) ==
    [image_paths |-> paths, attempt |-> 0, at |-> "call",
     result |-> NoStr, log |-> <<>>]

Invoked(how, text) == [e |-> "invoke", how |-> how, text |-> text, delay |-> 0]
Slept(d) == [e |-> "sleep", how |-> "-", text |-> NoStr, delay |-> d]

\* What the failure is, by the text of its message: a timeout or temporary
\* unavailability, or anything else.
FailureClass(msg) ==
    IF Contains(msg, "Deadline Exceeded") \/ Contains(msg, "503")
    THEN "Transient" ELSE "Fatal"

\* Lines 109-114: the capability answered.
OnReturn(c, text) ==
    [c EXCEPT !.at = "done", !.result = text,
              !.log = Append(@, Invoked("Success", text))]

\* Lines 115-124: the capability raised an exception with message error_str.
OnRaise(c, error_str) ==
    LET logged == Append(c.log, Invoked(FailureClass(error_str), NoStr)) IN
    IF IsTransient(error_str)
    THEN IF c.attempt + 1 < max_retries
         THEN [c EXCEPT !.at = "sleep",
                        !.log = Append(logged, Slept(Backoff(c.attempt)))]
         ELSE [c EXCEPT !.at = "done", !.result = ExhaustedStr, !.log = logged]
    ELSE [c EXCEPT !.at = "done", !.result = FatalStr(error_str), !.log = logged]

\* Line 120 returns; the loop of line 106 goes to the next attempt.
OnWake(c) == [c EXCEPT !.at = "call", !.attempt = @ + 1]

\* ------------------------------------------------------------ json.loads
\* The characters between the opening quote of "details" and the end of the
\* string of line 124: the message, then the closing quote and brace.
DetailsTail(msg) == msg \o << "\"", "}" >>

\* Scans a JSON string literal from position k of `tail'; the position of
\* its closing quote, or 0 when the literal is malformed (an escape that
\* JSON does not know, or no closing quote).
RECURSIVE ScanString(_, _)
ScanString(tail, k) ==
    IF k > Len(tail) THEN 0
    ELSE IF tail[k] = "\"" THEN k
    ELSE IF tail[k] = "\\"
         THEN IF k + 1 <= Len(tail) /\ tail[k + 1] \in { "\"", "\\" }
              THEN ScanString(tail, k + 2)
              ELSE 0
    ELSE ScanString(tail, k + 1)

\* json.loads(s): ok with the parsed object, or a JSONDecodeError.
Parsed(obj) == [ok |-> TRUE, value |-> obj]
DecodeError == [ok |-> FALSE, value |-> EmptyDict]

JsonLoads(s) ==
    CASE s.kind = "text" ->
            IF s.well_formed THEN Parsed(s.obj) ELSE DecodeError
      [] s.kind = "exhausted" ->
            Parsed([error |-> "API call failed after multiple retries"])
      [] s.kind = "fatal" ->
            LET tail == DetailsTail(s.details)
                close == ScanString(tail, 1)
            IN  IF close # 0 /\ close = Len(tail) - 1
                THEN Parsed([error |-> "API call failed", details |-> "..."])
                ELSE DecodeError
      [] OTHER -> DecodeError

\* A test for the presence of the key instead of a non-empty list.
HasTocEntriesKey(res_json) == "toc_entries" \in DOMAIN res_json

\* dict.get(key) is truthy for the list under "toc_entries" (line 199).
HasTocEntries(res_json) ==
    "toc_entries" \in DOMAIN res_json /\ Len(res_json.toc_entries) > 0

\* ----------------------------------------------------------- process_pdf
\* A partition that drops a trailing window shorter than W.
RECURSIVE ChunksFullOnlyFrom(_, _, _)
ChunksFullOnlyFrom(paths, W, i) ==
    IF i + W > Len(paths) THEN <<>>
    ELSE << SubSeq(paths, i + 1, i + W) >> \o ChunksFullOnlyFrom(paths, W, i + W)

\* Lines 188-190: the slices image_paths[i:i + W] for i = 0, W, 2W, ... < N,
\* built from Python index i on.
RECURSIVE ChunksFrom(_, _, _)
ChunksFrom(paths, W, i) ==
    IF i >= Len(paths) THEN <<>>
    ELSE << SubSeq(paths, i + 1, Min(i + W, Len(paths))) >>
            \o ChunksFrom(paths, W, i + W)

Chunks(paths, W) == ChunksFrom(paths, W, 0)

\* Window indices that are not clamped to the number of pages.
WindowIndicesUnclamped(i, n) ==
    { page_idx \in 0..(n + chunk_size) :
        page_idx >= i * chunk_size /\ page_idx < i * chunk_size + chunk_size }

\* Lines 200-204: the page indices added for the window at position i of
\* discovery_results (0-based), among n pages.
WindowIndices(i, n) ==
    LET start_index == i * chunk_size
        end_index == start_index + chunk_size
    IN  { page_idx \in 0..(n - 1) :
            page_idx >= start_index /\ page_idx < Min(end_index, n) }

\* A loop that stops at the first result that does not parse (break instead
\* of continue at line 207).
RECURSIVE AggregateBreaksFrom(_, _, _, _, _)
AggregateBreaksFrom(results, n, k, indices, parsed) ==
    IF k > Len(results) THEN [indices |-> indices, parsed |-> parsed]
    ELSE LET r == JsonLoads(results[k]) IN
         IF ~r.ok THEN [indices |-> indices, parsed |-> parsed]
         ELSE AggregateBreaksFrom(results, n, k + 1,
                  IF HasTocEntries(r.value)
                  THEN indices \cup WindowIndices(k - 1, n) ELSE indices,
                  Append(parsed, r.value))

\* A loop that places a window by the number of results parsed before it
\* (len(all_parsed_results_pass1) instead of i at line 200).
RECURSIVE AggregateByParsedFrom(_, _, _, _, _)
AggregateByParsedFrom(results, n, k, indices, parsed) ==
    IF k > Len(results) THEN [indices |-> indices, parsed |-> parsed]
    ELSE LET r == JsonLoads(results[k]) IN
         IF ~r.ok THEN AggregateByParsedFrom(results, n, k + 1, indices, parsed)
         ELSE AggregateByParsedFrom(results, n, k + 1,
                  IF HasTocEntries(r.value)
                  THEN indices \cup WindowIndices(Len(parsed), n) ELSE indices,
                  Append(parsed, r.value))

\* Lines 193-207: the loop over discovery_results, from position k (1-based)
\* on, with the indices and the parsed results collected so far.
RECURSIVE AggregateFrom(_, _, _, _, _)
AggregateFrom(results, n, k, indices, parsed) ==
    IF k > Len(results) THEN [indices |-> indices, parsed |-> parsed]
    ELSE LET r == JsonLoads(results[k]) IN
         IF ~r.ok THEN AggregateFrom(results, n, k + 1, indices, parsed)
         ELSE AggregateFrom(results, n, k + 1,
                  IF HasTocEntries(r.value)
                  THEN indices \cup WindowIndices(k - 1, n) ELSE indices,
                  Append(parsed, r.value))

\* list(s) without sorted(): here, the largest index first.
RECURSIVE ListUnsorted(_)
ListUnsorted(s) ==
    IF s = {} THEN <<>>
    ELSE LET hi == CHOOSE x \in s : \A y \in s : x >= y
         IN  << hi >> \o ListUnsorted(s \ { hi })

\* sorted(list(s)) of line 219.
RECURSIVE SortedList(_)
SortedList(s) ==
    IF s = {} THEN <<>>
    ELSE LET lo == CHOOSE x \in s : \A y \in s : x <= y
         IN  << lo >> \o SortedList(s \ { lo })

\* Line 219: the images at the discovered indices.
TargetedImagePaths(paths, indices) ==
    LET order == SortedList(indices)
    IN  [k \in 1..Len(order) |-> paths[order[k] + 1]]

\* Line 239: the number of values of the metadata dict that are not None.
FilledCount(metadata) ==
    Cardinality({ f \in DOMAIN metadata : metadata[f] # Null })

\* A loop that passes over the results without TOC entries.
RECURSIVE BestMetadataOfFlaggedFrom(_, _, _, _)
BestMetadataOfFlaggedFrom(parsed, k, best_metadata, max_filled_fields) ==
    IF k > Len(parsed) THEN best_metadata
    ELSE LET result == parsed[k]
             metadata == IF "metadata" \in DOMAIN result
                         THEN result.metadata ELSE EmptyDict
         IN  IF DOMAIN metadata # {}
                /\ HasTocEntries(result)
                /\ FilledCount(metadata) > max_filled_fields
             THEN BestMetadataOfFlaggedFrom(parsed, k + 1, metadata,
                                            FilledCount(metadata))
             ELSE BestMetadataOfFlaggedFrom(parsed, k + 1, best_metadata,
                                            max_filled_fields)

\* A loop that lets a later result with the same count replace the best
\* one (>= instead of > at line 240).
RECURSIVE BestMetadataLastFrom(_, _, _, _)
BestMetadataLastFrom(parsed, k, best_metadata, max_filled_fields) ==
    IF k > Len(parsed) THEN best_metadata
    ELSE LET result == parsed[k]
             metadata == IF "metadata" \in DOMAIN result
                         THEN result.metadata ELSE EmptyDict
         IN  IF DOMAIN metadata # {}
                /\ FilledCount(metadata) >= max_filled_fields
             THEN BestMetadataLastFrom(parsed, k + 1, metadata, FilledCount(metadata))
             ELSE BestMetadataLastFrom(parsed, k + 1, best_metadata, max_filled_fields)

\* Lines 234-242: the loop over all_parsed_results_pass1, from position k.
RECURSIVE BestMetadataFrom(_, _, _, _)
BestMetadataFrom(parsed, k, best_metadata, max_filled_fields) ==
    IF k > Len(parsed) THEN best_metadata
    ELSE LET result == parsed[k]
             metadata == IF "metadata" \in DOMAIN result
                         THEN result.metadata ELSE EmptyDict
         IN  IF DOMAIN metadata # {}
                /\ FilledCount(metadata) > max_filled_fields
             THEN BestMetadataFrom(parsed, k + 1, metadata, FilledCount(metadata))
             ELSE BestMetadataFrom(parsed, k + 1, best_metadata, max_filled_fields)

BestMetadata(parsed) == BestMetadataFrom(parsed, 1, EmptyDict, -1)

\* Line 248: list.sort by page_number, stable (insertion of each entry after
\* the entries already placed whose key is not larger).
SortKey(item) ==
    IF "page_number" \in DOMAIN item THEN item.page_number ELSE 0

\* An insertion that puts an entry before the entries of the same page.
RECURSIVE InsertByPageStrict(_, _)
InsertByPageStrict(sorted, item) ==
    IF sorted = <<>> THEN << item >>
    ELSE IF SortKey(sorted[Len(sorted)]) < SortKey(item)
         THEN Append(sorted, item)
         ELSE Append(InsertByPageStrict(SubSeq(sorted, 1, Len(sorted) - 1), item),
                     sorted[Len(sorted)])

RECURSIVE InsertByPage(_, _)
InsertByPage(sorted, item) ==
    IF sorted = <<>> THEN << item >>
    ELSE IF SortKey(sorted[Len(sorted)]) <= SortKey(item)
         THEN Append(sorted, item)
         ELSE Append(InsertByPage(SubSeq(sorted, 1, Len(sorted) - 1), item),
                     sorted[Len(sorted)])

RECURSIVE SortByPage(_)
SortByPage(toc) ==
    IF toc = <<>> THEN <<>>
    ELSE InsertByPage(SortByPage(SubSeq(toc, 1, Len(toc) - 1)), toc[Len(toc)])

\* What process_pdf returns: None, or the dict of lines 250-253.
None == [is_none |-> TRUE, metadata |-> EmptyDict, toc_entries |-> <<>>]
\* The values of the return statements of lines 135, 181, 211 and 227.
ReturnedWithoutApiKey == None
ReturnedOnRenderFailure == None
ReturnedOnNoCandidates == None
ReturnedOnUnparsedVerification == None
ResultObj(metadata, toc) ==
    [is_none |-> FALSE, metadata |-> metadata, toc_entries |-> toc]

\* A consolidation that takes the metadata of the verification answer when
\* it has one.
ConsolidatedPrefersVerification(final_result_str, parsed) ==
    LET final == JsonLoads(final_result_str) IN
    IF ~final.ok
    THEN [value |-> ReturnedOnUnparsedVerification, line |-> 227]
    ELSE LET final_data == final.value
             final_combined_toc ==
                 IF "toc_entries" \in DOMAIN final_data
                 THEN final_data.toc_entries ELSE <<>>
         IN  [value |-> ResultObj(IF "metadata" \in DOMAIN final_data
                                  THEN final_data.metadata
                                  ELSE BestMetadata(parsed),
                                  SortByPage(final_combined_toc)),
              line |-> 258]

\* A consolidation that takes an empty TOC list for a failure.
ConsolidatedRejectsEmpty(final_result_str, parsed) ==
    LET final == JsonLoads(final_result_str) IN
    IF ~final.ok \/ ~HasTocEntries(final.value)
    THEN [value |-> ReturnedOnUnparsedVerification, line |-> 227]
    ELSE [value |-> ResultObj(BestMetadata(parsed),
                              SortByPage(final.value.toc_entries)),
          line |-> 258]

\* Lines 222-258: the value returned for the string of the verification call
\* and the parsed discovery results, and the line of the return.
Consolidated(final_result_str, parsed) ==
    LET final == JsonLoads(final_result_str) IN
    IF ~final.ok
    THEN [value |-> ReturnedOnUnparsedVerification, line |-> 227]
    ELSE LET final_data == final.value
             best_metadata == BestMetadata(parsed)
             final_combined_toc ==
                 IF "toc_entries" \in DOMAIN final_data
                 THEN final_data.toc_entries ELSE <<>>
         IN  [value |-> ResultObj(best_metadata, SortByPage(final_combined_toc)),
              line |-> 258]

\* ----------------------------------------------------------------- state
VARIABLES
    API_KEY,                  \* the module global of line 31, as a truth value
    pc,                       \* where process_pdf stands
    image_paths,              \* line 161: the rendered pages, in page order
    discovery_tasks,          \* line 187: the calls handed to asyncio.gather
    discovery_results,        \* line 191
    toc_page_indices,         \* line 193
    all_parsed_results_pass1, \* line 194
    verify_tasks,             \* the calls of line 220, in the order issued
    returned,                 \* the value process_pdf returned
    exit_line,                \* the line of the return statement taken (or
                              \* of the await an exception left through), or 0
    pages_dir,                \* line 138: the files of the directory "pages",
                              \* each with the run that wrote it
    runs,                     \* the runs of process_pdf sharing the process,
                              \* when more than the one above are followed
    request                   \* main.py: the request an endpoint is serving,
                              \* when one is followed

vars == << API_KEY, pc, image_paths, discovery_tasks, discovery_results,
           toc_page_indices, all_parsed_results_pass1, verify_tasks,
           returned, exit_line, pages_dir, runs, request >>

\* The run of process_pdf followed by the variables above.
ThisRun == 0

\* No endpoint is followed.
NoRequest == [endpoint |-> "-"]

\* Lines 141-145 and 153-168: the old *.jpg files are unlinked, then run r
\* writes its n pages.
RenderedFiles(r, n) == { [name |-> k, by |-> r] : k \in 1..n }

\* The file page_00k.jpg is written k; sorted() of line 168 and the loop of
\* line 153 both give the files in page order.
RenderedPaths(n) == [k \in 1..n |-> k]

Init ==
    /\ API_KEY \in BOOLEAN
    /\ pc = "start"
    /\ image_paths = <<>>
    /\ discovery_tasks = <<>>
    /\ discovery_results = <<>>
    /\ toc_page_indices = {}
    /\ all_parsed_results_pass1 = <<>>
    /\ verify_tasks = <<>>
    /\ returned = None
    /\ exit_line = 0
    /\ pages_dir = {}
    /\ runs = <<>>
    /\ request = NoRequest

\* return <value> at line `line'.
Return(value, line) ==
    /\ pc' = "done"
    /\ returned' = value
    /\ exit_line' = line

\* Lines 133-135.
CheckApiKey ==
    /\ pc = "start"
    /\ IF ~API_KEY
       THEN Return(ReturnedWithoutApiKey, 135)
       ELSE pc' = "render" /\ UNCHANGED << returned, exit_line >>
    /\ UNCHANGED << API_KEY, request, runs, pages_dir, image_paths, discovery_tasks, discovery_results,
                    toc_page_indices, all_parsed_results_pass1, verify_tasks >>

\* Lines 137-174: the document renders to n pages.
Render(n) ==
    /\ pc = "render"
    /\ n <= MaxPages
    /\ image_paths' = RenderedPaths(n)
    /\ pages_dir' = RenderedFiles(ThisRun, n)
    /\ pc' = "dispatch"
    /\ UNCHANGED << API_KEY, request, runs, discovery_tasks, discovery_results,
                    toc_page_indices, all_parsed_results_pass1, verify_tasks,
                    returned, exit_line >>

\* A render failure that is reported at line 176 and not returned from: the
\* run goes on with a page rendered before the failure.
RenderFailsFallsThrough ==
    /\ pc = "render"
    /\ image_paths' = RenderedPaths(1)
    /\ pages_dir' = RenderedFiles(ThisRun, 1)
    /\ pc' = "dispatch"
    /\ exit_line' = 181
    /\ UNCHANGED << API_KEY, request, runs, discovery_tasks, discovery_results,
                    toc_page_indices, all_parsed_results_pass1, verify_tasks,
                    returned >>

\* Lines 175-181: rendering raised.
RenderFails ==
    /\ pc = "render"
    /\ Return(ReturnedOnRenderFailure, 181)
    /\ pages_dir' = RenderedFiles(ThisRun, 0)
    /\ UNCHANGED << API_KEY, request, runs, image_paths, discovery_tasks, discovery_results,
                    toc_page_indices, all_parsed_results_pass1, verify_tasks >>

\* Lines 185-190: one call per window; line 191 starts them all.
Dispatch ==
    /\ pc = "dispatch"
    /\ discovery_tasks' =
           LET chunks == Chunks(image_paths, chunk_size)
           IN  [k \in 1..Len(chunks) |-> NewCall(chunks[k])]
    /\ pc' = "gather"
    /\ UNCHANGED << API_KEY, request, runs, pages_dir, image_paths, discovery_results, toc_page_indices,
                    all_parsed_results_pass1, verify_tasks, returned, exit_line >>

\* The capability answers the call of window w (1-based position).
DiscoveryReturn(w, text) ==
    /\ pc = "gather"
    /\ w \in 1..Len(discovery_tasks)
    /\ discovery_tasks[w].at = "call"
    /\ discovery_tasks' = [discovery_tasks EXCEPT ![w] = OnReturn(@, text)]
    /\ UNCHANGED << API_KEY, request, runs, pages_dir, pc, image_paths, discovery_results,
                    toc_page_indices, all_parsed_results_pass1, verify_tasks,
                    returned, exit_line >>

\* The capability raises in the call of window w.
DiscoveryRaise(w, msg) ==
    /\ pc = "gather"
    /\ w \in 1..Len(discovery_tasks)
    /\ discovery_tasks[w].at = "call"
    /\ discovery_tasks' = [discovery_tasks EXCEPT ![w] = OnRaise(@, msg)]
    /\ UNCHANGED << API_KEY, request, runs, pages_dir, pc, image_paths, discovery_results,
                    toc_page_indices, all_parsed_results_pass1, verify_tasks,
                    returned, exit_line >>

\* The backoff sleep of window w is over.
DiscoveryWake(w) ==
    /\ pc = "gather"
    /\ w \in 1..Len(discovery_tasks)
    /\ discovery_tasks[w].at = "sleep"
    /\ discovery_tasks' = [discovery_tasks EXCEPT ![w] = OnWake(@)]
    /\ UNCHANGED << API_KEY, request, runs, pages_dir, pc, image_paths, discovery_results,
                    toc_page_indices, all_parsed_results_pass1, verify_tasks,
                    returned, exit_line >>

\* A gather that leaves out the windows that ended Exhausted.
GatherDropsExhausted ==
    /\ pc = "gather"
    /\ \A w \in 1..Len(discovery_tasks) : discovery_tasks[w].at = "done"
    /\ discovery_results' =
           LET NotExhausted(c) == c.result.kind # "exhausted"
               kept == SelectSeq(discovery_tasks, NotExhausted)
           IN  [w \in 1..Len(kept) |-> kept[w].result]
    /\ pc' = "aggregate"
    /\ UNCHANGED << API_KEY, request, runs, pages_dir, image_paths, discovery_tasks, toc_page_indices,
                    all_parsed_results_pass1, verify_tasks, returned, exit_line >>

\* A gather that returns when the first call has returned
\* (return_when = FIRST_COMPLETED), with no string for the others.
GatherFirstCompleted ==
    /\ pc = "gather"
    /\ \E w \in 1..Len(discovery_tasks) : discovery_tasks[w].at = "done"
    /\ discovery_results' =
           [w \in 1..Len(discovery_tasks) |-> discovery_tasks[w].result]
    /\ pc' = "aggregate"
    /\ UNCHANGED << API_KEY, request, runs, pages_dir, image_paths, discovery_tasks,
                    toc_page_indices, all_parsed_results_pass1, verify_tasks,
                    returned, exit_line >>

\* A gather that hands over the results in the order the calls finished
\* (as asyncio.as_completed would): a call that went through fewer attempts
\* and sleeps finishes before one that went through more.
GatherInCompletionOrder ==
    /\ pc = "gather"
    /\ \A w \in 1..Len(discovery_tasks) : discovery_tasks[w].at = "done"
    /\ discovery_results' =
           LET Steps(w) == Len(discovery_tasks[w].log)
               Before(x, w) == Steps(x) < Steps(w) \/ (Steps(x) = Steps(w) /\ x < w)
               Rank(w) == 1 + Cardinality({ x \in 1..Len(discovery_tasks) : Before(x, w) })
           IN  [k \in 1..Len(discovery_tasks) |->
                  discovery_tasks[CHOOSE w \in 1..Len(discovery_tasks) : Rank(w) = k].result]
    /\ pc' = "aggregate"
    /\ UNCHANGED << API_KEY, request, runs, pages_dir, image_paths, discovery_tasks,
                    toc_page_indices, all_parsed_results_pass1, verify_tasks,
                    returned, exit_line >>

\* Line 191: gather returns the results in the order of the calls once every
\* call has returned.
Gather ==
    /\ pc = "gather"
    /\ \A w \in 1..Len(discovery_tasks) : discovery_tasks[w].at = "done"
    /\ discovery_results' =
           [w \in 1..Len(discovery_tasks) |-> discovery_tasks[w].result]
    /\ pc' = "aggregate"
    /\ UNCHANGED << API_KEY, request, runs, pages_dir, image_paths, discovery_tasks, toc_page_indices,
                    all_parsed_results_pass1, verify_tasks, returned, exit_line >>

\* Lines 193-211.
Aggregate ==
    /\ pc = "aggregate"
    /\ LET agg == AggregateFrom(discovery_results, Len(image_paths), 1, {}, <<>>)
       IN  /\ toc_page_indices' = agg.indices
           /\ all_parsed_results_pass1' = agg.parsed
           /\ IF agg.indices = {}
              THEN Return(ReturnedOnNoCandidates, 211)
              ELSE pc' = "verify" /\ UNCHANGED << returned, exit_line >>
    /\ UNCHANGED << API_KEY, request, runs, pages_dir, image_paths, discovery_tasks, discovery_results,
                    verify_tasks >>

\* Lines 215-220: the verification call is issued.
Verify ==
    /\ pc = "verify"
    /\ verify_tasks' =
           Append(verify_tasks,
                  NewCall(TargetedImagePaths(image_paths, toc_page_indices)))
    /\ pc' = "await_verify"
    /\ UNCHANGED << API_KEY, request, runs, pages_dir, image_paths, discovery_tasks, discovery_results,
                    toc_page_indices, all_parsed_results_pass1, returned,
                    exit_line >>

VerifyReturn(text) ==
    /\ pc = "await_verify"
    /\ verify_tasks[Len(verify_tasks)].at = "call"
    /\ verify_tasks' = [verify_tasks EXCEPT ![Len(verify_tasks)] = OnReturn(@, text)]
    /\ UNCHANGED << API_KEY, request, runs, pages_dir, pc, image_paths, discovery_tasks, discovery_results,
                    toc_page_indices, all_parsed_results_pass1, returned,
                    exit_line >>

VerifyRaise(msg) ==
    /\ pc = "await_verify"
    /\ verify_tasks[Len(verify_tasks)].at = "call"
    /\ verify_tasks' = [verify_tasks EXCEPT ![Len(verify_tasks)] = OnRaise(@, msg)]
    /\ UNCHANGED << API_KEY, request, runs, pages_dir, pc, image_paths, discovery_tasks, discovery_results,
                    toc_page_indices, all_parsed_results_pass1, returned,
                    exit_line >>

VerifyWake ==
    /\ pc = "await_verify"
    /\ verify_tasks[Len(verify_tasks)].at = "sleep"
    /\ verify_tasks' = [verify_tasks EXCEPT ![Len(verify_tasks)] = OnWake(@)]
    /\ UNCHANGED << API_KEY, request, runs, pages_dir, pc, image_paths, discovery_tasks, discovery_results,
                    toc_page_indices, all_parsed_results_pass1, returned,
                    exit_line >>

\* Lines 220-258: the call returned final_result_str.
Consolidate ==
    /\ pc = "await_verify"
    /\ verify_tasks[Len(verify_tasks)].at = "done"
    /\ LET final_result_str == verify_tasks[Len(verify_tasks)].result
           out == Consolidated(final_result_str, all_parsed_results_pass1)
       IN  Return(out.value, out.line)
    /\ UNCHANGED << API_KEY, request, runs, pages_dir, image_paths, discovery_tasks, discovery_results,
                    toc_page_indices, all_parsed_results_pass1, verify_tasks >>

Next ==
    \/ CheckApiKey
    \/ \E n \in 0..MaxPages : Render(n)
    \/ RenderFails
    \/ Dispatch
    \/ \E w \in 1..Len(discovery_tasks) :
          \/ \E text \in DiscoveryTexts : DiscoveryReturn(w, text)
          \/ \E msg \in Messages : DiscoveryRaise(w, msg)
          \/ DiscoveryWake(w)
    \/ Gather
    \/ Aggregate
    \/ Verify
    \/ \E text \in VerifyTexts : VerifyReturn(text)
    \/ \E msg \in Messages : VerifyRaise(msg)
    \/ VerifyWake
    \/ Consolidate

Spec == Init /\ [][Next]_vars

\* The runs in which every capability invocation eventually returns or
\* raises (asyncio.to_thread, line 109), every asyncio.sleep (line 120)
\* ends, and the event loop goes on running process_pdf: a step that stays
\* possible is eventually taken.
NextLive ==
    \/ CheckApiKey
    \/ \E n \in 0..MaxPagesLive : Render(n)
    \/ RenderFails
    \/ Dispatch
    \/ \E w \in 1..Len(discovery_tasks) :
          \/ \E text \in DiscoveryTexts : DiscoveryReturn(w, text)
          \/ \E msg \in Messages : DiscoveryRaise(w, msg)
          \/ DiscoveryWake(w)
    \/ Gather
    \/ Aggregate
    \/ Verify
    \/ \E text \in VerifyTexts : VerifyReturn(text)
    \/ \E msg \in Messages : VerifyRaise(msg)
    \/ VerifyWake
    \/ Consolidate

SpecLive == Init /\ [][NextLive]_vars /\ WF_vars(NextLive)

\* ------------------------------------------- exceptions and cancellation
\* An exception leaves process_pdf through the await of line `line'; nothing
\* is returned.
Raise(line) ==
    /\ pc' = "raised"
    /\ exit_line' = line
    /\ UNCHANGED returned

\* Lines 96-98: Image.open fails for an image of window w (the file is gone
\* or unreadable); the exception leaves the call, outside the try of line 107.
DiscoveryOpenFails(w) ==
    /\ pc = "gather"
    /\ w \in 1..Len(discovery_tasks)
    /\ discovery_tasks[w].at = "call"
    /\ discovery_tasks[w].log = <<>>
    /\ discovery_tasks' = [discovery_tasks EXCEPT ![w].at = "raised"]
    /\ UNCHANGED << API_KEY, request, runs, pages_dir, pc, image_paths, discovery_results,
                    toc_page_indices, all_parsed_results_pass1, verify_tasks,
                    returned, exit_line >>

\* Line 191: gather (return_exceptions is False) hands the first exception of
\* a call to its awaiter as soon as that call has raised; the other calls
\* are neither awaited nor cancelled.
GatherRaises ==
    /\ pc = "gather"
    /\ \E w \in 1..Len(discovery_tasks) : discovery_tasks[w].at = "raised"
    /\ Raise(191)
    /\ UNCHANGED << API_KEY, request, runs, pages_dir, image_paths, discovery_tasks,
                    discovery_results, toc_page_indices,
                    all_parsed_results_pass1, verify_tasks >>

\* Lines 96-98 within the call of line 220: Image.open fails; the exception
\* leaves process_pdf through line 220.
VerifyOpenFails ==
    /\ pc = "await_verify"
    /\ verify_tasks[Len(verify_tasks)].at = "call"
    /\ verify_tasks[Len(verify_tasks)].log = <<>>
    /\ verify_tasks' = [verify_tasks EXCEPT ![Len(verify_tasks)].at = "raised"]
    /\ Raise(220)
    /\ UNCHANGED << API_KEY, request, runs, pages_dir, image_paths, discovery_tasks,
                    discovery_results, toc_page_indices,
                    all_parsed_results_pass1 >>

\* The task running process_pdf is cancelled while it awaits line 191 or
\* line 220: asyncio throws CancelledError (not an Exception, so line 115
\* does not catch it) into every call that has not finished.
Cancelled(c) ==
    IF c.at \in { "call", "sleep" } THEN [c EXCEPT !.at = "cancelled"] ELSE c

Cancel ==
    /\ pc \in { "gather", "await_verify" }
    /\ discovery_tasks' =
           [w \in 1..Len(discovery_tasks) |-> Cancelled(discovery_tasks[w])]
    /\ verify_tasks' = [v \in 1..Len(verify_tasks) |-> Cancelled(verify_tasks[v])]
    /\ Raise(IF pc = "gather" THEN 191 ELSE 220)
    /\ UNCHANGED << API_KEY, request, runs, pages_dir, image_paths, discovery_results,
                    toc_page_indices, all_parsed_results_pass1 >>

\* ------------------------------------------------------- long documents
\* Lines 137-174 for a document of n pages, n among the LongPagesSpan
\* largest page counts the code renders.
RenderLong(n) ==
    /\ pc = "render"
    /\ n > max_pages - LongPagesSpan
    /\ n <= max_pages
    /\ image_paths' = RenderedPaths(n)
    /\ pages_dir' = RenderedFiles(ThisRun, n)
    /\ pc' = "dispatch"
    /\ UNCHANGED << API_KEY, request, runs, discovery_tasks, discovery_results,
                    toc_page_indices, all_parsed_results_pass1, verify_tasks,
                    returned, exit_line >>

\* The runs over long documents, with the richer answers; a failure of the
\* capability is the one with a plain message, never retried.
NextLong ==
    \/ CheckApiKey
    \/ \E n \in 1..max_pages : RenderLong(n)
    \/ Dispatch
    \/ \E w \in 1..Len(discovery_tasks) :
          \/ \E text \in RichDiscoveryTexts : DiscoveryReturn(w, text)
          \/ DiscoveryRaise(w, MsgPlain)
    \/ Gather
    \/ Aggregate
    \/ Verify
    \/ \E text \in RichVerifyTexts : VerifyReturn(text)
    \/ VerifyRaise(MsgPlain)
    \/ Consolidate

SpecLong == Init /\ [][NextLong]_vars

NextFaults ==
    \/ Next
    \/ \E w \in 1..Len(discovery_tasks) : DiscoveryOpenFails(w)
    \/ GatherRaises
    \/ VerifyOpenFails
    \/ Cancel

SpecFaults == Init /\ [][NextFaults]_vars

\* ------------------------------------------------------- concurrent runs
\* main.py 235-263 (and 182-232): every request awaits process_pdf on the one
\* event loop. A run executes lines 133-187 without suspending; it suspends
\* at the awaits of lines 191 and 220, and its calls open their images when
\* they start (lines 96-98). All runs use Path("pages") (line 138).
RunIds == 1..MaxRuns

NewRun == [pc |-> "render", image_paths |-> <<>>, opened |-> {},
           windows_left |-> {}, targeted |-> <<>>]

InitTwo ==
    /\ API_KEY = TRUE
    /\ pc = "start"
    /\ image_paths = <<>>
    /\ discovery_tasks = <<>>
    /\ discovery_results = <<>>
    /\ toc_page_indices = {}
    /\ all_parsed_results_pass1 = <<>>
    /\ verify_tasks = <<>>
    /\ returned = None
    /\ exit_line = 0
    /\ pages_dir = {}
    /\ runs = [r \in RunIds |-> NewRun]
    /\ request = NoRequest

OneRunUnchanged ==
    UNCHANGED << API_KEY, request, pc, image_paths, discovery_tasks,
                 discovery_results, toc_page_indices, all_parsed_results_pass1, verify_tasks,
                 returned, exit_line >>

\* Lines 137-187 in run r, for a document of n pages: the *.jpg files of the
\* directory are unlinked, whoever wrote them, the pages are written under
\* the names page_001.jpg..., and the calls of the windows are created.
TwoRender(r, n) ==
    /\ runs[r].pc = "render"
    /\ n <= MaxPagesTwo
    /\ pages_dir' = RenderedFiles(r, n)
    /\ runs' = [runs EXCEPT ![r] =
                  [pc |-> "gather",
                   image_paths |-> RenderedPaths(n),
                   opened |-> {},
                   windows_left |-> 1..Len(Chunks(RenderedPaths(n), chunk_size)),
                   targeted |-> <<>>]]
    /\ OneRunUnchanged

\* Lines 137-181 in run r when the rendering raises: the files were unlinked
\* before.
TwoRenderFails(r) ==
    /\ runs[r].pc = "render"
    /\ pages_dir' = RenderedFiles(r, 0)
    /\ runs' = [runs EXCEPT ![r].pc = "done"]
    /\ OneRunUnchanged

\* Lines 96-98 over the paths `paths': Image.open takes the file that has
\* the name at that moment, and raises at the first name without a file.
FilesOpened(paths) ==
    { f \in pages_dir : \E k \in 1..Len(paths) :
                           /\ paths[k] = f.name
                           /\ \A j \in 1..k : \E g \in pages_dir : g.name = paths[j] }

OpenRaises(paths) ==
    \E k \in 1..Len(paths) : \A g \in pages_dir : g.name # paths[k]

\* Lines 96-98 of the call of window w of run r, then line 191 when it
\* raises.
TwoDiscoveryOpen(r, w) ==
    /\ runs[r].pc = "gather"
    /\ w \in runs[r].windows_left
    /\ LET paths == Chunks(runs[r].image_paths, chunk_size)[w] IN
       runs' = [runs EXCEPT
                  ![r].opened = @ \cup FilesOpened(paths),
                  ![r].windows_left = @ \ { w },
                  ![r].pc = IF OpenRaises(paths) THEN "raised" ELSE @]
    /\ UNCHANGED pages_dir
    /\ OneRunUnchanged

\* Lines 191-218 of run r once its calls returned, `flagged' being the
\* windows that answered with TOC entries.
TwoAggregate(r, flagged) ==
    /\ runs[r].pc = "gather"
    /\ runs[r].windows_left = {}
    /\ flagged \subseteq 1..Len(Chunks(runs[r].image_paths, chunk_size))
    /\ LET n == Len(runs[r].image_paths)
           indices == UNION { WindowIndices(w - 1, n) : w \in flagged }
       IN  runs' = [runs EXCEPT
                      ![r].pc = IF indices = {} THEN "done" ELSE "verify",
                      ![r].targeted =
                          TargetedImagePaths(runs[r].image_paths, indices)]
    /\ UNCHANGED pages_dir
    /\ OneRunUnchanged

\* Line 220 of run r: the verification call opens the targeted paths.
TwoVerifyOpen(r) ==
    /\ runs[r].pc = "verify"
    /\ runs' = [runs EXCEPT
                  ![r].opened = @ \cup FilesOpened(runs[r].targeted),
                  ![r].pc = IF OpenRaises(runs[r].targeted)
                            THEN "raised" ELSE "done"]
    /\ UNCHANGED pages_dir
    /\ OneRunUnchanged

NextTwo ==
    \E r \in RunIds :
        \/ \E n \in 1..MaxPagesTwo : TwoRender(r, n)
        \/ TwoRenderFails(r)
        \/ \E w \in runs[r].windows_left : TwoDiscoveryOpen(r, w)
        \/ \E flagged \in SUBSET (1..Len(Chunks(runs[r].image_paths, chunk_size))) :
              TwoAggregate(r, flagged)
        \/ TwoVerifyOpen(r)

SpecTwoRuns == InitTwo /\ [][NextTwo]_vars

\* ------------------------------------------------------------- main.py
\* The answer of the generateContent request of line 142 is modelled by what
\* lines 143-149 see of it: the request raised, a status other than 200, no
\* candidates, a candidate without text, or the text of the first candidate.
\* A text is a sequence of pieces: the code fences (three backquotes, with
\* or without the word json) and bodies.
FenceJson == [piece |-> "fence_json", form |-> "-", value |-> <<>>]
Fence == [piece |-> "fence", form |-> "-", value |-> <<>>]
JsonList(chapters) == [piece |-> "body", form |-> "json_list", value |-> chapters]
JsonObject == [piece |-> "body", form |-> "json_object", value |-> <<>>]
\* Lines of the form "* Chapter <n>: <title>: <page>", as many as `chapters'.
Bullets(chapters) == [piece |-> "body", form |-> "bullets", value |-> chapters]
Prose == [piece |-> "body", form |-> "prose", value |-> <<>>]

\* A chapter in the format the prompt of line 137 asks for.
Heading(title, page) == [title |-> title, pageNumber |-> page, level |-> 1]

ChapterLists ==
    { <<>>,
      << Heading("A", 10) >>,
      << Heading("B", 20), Heading("A", 10) >>,
      << Heading("A", 10), Heading("B", 20), Heading("C", 30), Heading("D", 40) >> }

MatchTexts ==
    { << JsonList(l) >> : l \in ChapterLists }
        \cup { << FenceJson, JsonList(l), Fence >> : l \in ChapterLists }
        \cup { << Fence, JsonList(l), Fence >> : l \in ChapterLists }
        \cup { << JsonObject >>, << Prose >>, << Prose, JsonList(<< Heading("A", 10) >>) >>,
               << Bullets(<< Heading("B", 20), Heading("A", 10) >>) >>,
               << FenceJson, Bullets(<<>>) >> }

MatchAnswers ==
    { [kind |-> k, text |-> <<>>] :
        k \in { "raises", "not_200", "no_candidates", "no_text" } }
        \cup { [kind |-> "text", text |-> t] : t \in MatchTexts }

\* Lines 151-157: cleaned, the text without a fence at its start (the one
\* with json, then the plain one, each at most once) and at its end.
StripFences(text) ==
    LET StartsWith(c, pieces) == c # <<>> /\ c[1].piece \in pieces
        c1 == IF StartsWith(text, { "fence_json" }) THEN Tail(text) ELSE text
        c2 == IF StartsWith(c1, { "fence", "fence_json" }) THEN Tail(c1) ELSE c1
    IN  IF c2 # <<>> /\ c2[Len(c2)].piece = "fence"
        THEN SubSeq(c2, 1, Len(c2) - 1) ELSE c2

\* Lines 36-45: the chapters the pattern finds in the text, in order.
RECURSIVE parse_chapter_list(_)
parse_chapter_list(text_response) ==
    IF text_response = <<>> THEN <<>>
    ELSE (IF text_response[1].form = "bullets"
          THEN [k \in 1..Len(text_response[1].value) |->
                  [chapter_number |-> k,
                   chapter_title |-> text_response[1].value[k].title,
                   page_number |-> text_response[1].value[k].pageNumber]]
          ELSE <<>>)
         \o parse_chapter_list(Tail(text_response))

\* json.loads(cleaned) at line 159: cleaned is one JSON value or no JSON.
JsonLoadsCleaned(cleaned) ==
    IF Len(cleaned) = 1 /\ cleaned[1].form \in { "json_list", "json_object" }
    THEN [ok |-> TRUE, is_list |-> cleaned[1].form = "json_list",
          value |-> cleaned[1].value]
    ELSE [ok |-> FALSE, is_list |-> FALSE, value |-> <<>>]

\* Lines 141-175: what match_toc_with_java_headings_gemini returns for the
\* TOC it was given and the answer to its request.
match_toc_with_java_headings_gemini(toc, answer) ==
    IF answer.kind \in { "raises", "no_text" } THEN <<>>          \* line 175
    ELSE IF answer.kind \in { "not_200", "no_candidates" } THEN <<>>  \* line 172
    ELSE LET cleaned == StripFences(answer.text)
             loaded == JsonLoadsCleaned(cleaned)
         IN  IF loaded.ok
             THEN IF loaded.is_list /\ loaded.value # <<>>
                  THEN loaded.value                               \* line 161
                  ELSE toc                                        \* line 171
             ELSE IF parse_chapter_list(cleaned) # <<>>
                  THEN parse_chapter_list(cleaned)                \* line 168
                  ELSE toc                                        \* line 171

\* What toc_logic.process_pdf does for the wrapper of lines 47-66: it raises,
\* returns None, or returns a record whose toc_entries are sorted by page.
PipelineRecords ==
    { ResultObj(m, SortByPage(t)) :
        m \in { MetaTwo, MetaZero, EmptyDict }, t \in RichVerifyTocs }
PipelineOutcomes ==
    { [raised |-> TRUE, value |-> None], [raised |-> FALSE, value |-> None] }
        \cup { [raised |-> FALSE, value |-> r] : r \in PipelineRecords }

\* Lines 47-66: [] without the key, the record when process_pdf returned
\* one, None otherwise.
get_toc_from_new_logic(GEMINI_API_KEY, outcome) ==
    IF ~GEMINI_API_KEY THEN [kind |-> "list", value |-> None]
    ELSE IF outcome.raised THEN [kind |-> "none", value |-> None]
    ELSE IF ~outcome.value.is_none
         THEN [kind |-> "record", value |-> outcome.value]
         ELSE [kind |-> "none", value |-> None]

\* Lines 186 and 214-217.
TocOf(result) == IF result.kind = "record" THEN result.value.toc_entries ELSE <<>>
MetadataOfResult(result) ==
    IF result.kind = "record" THEN result.value.metadata ELSE EmptyDict
BookTitle(metadata) ==
    IF "book_title" \in DOMAIN metadata /\ metadata.book_title # Null
    THEN metadata.book_title ELSE "Unknown Title"

\* Lines 188-194.
FilteredToc(toc) ==
    [k \in 1..Len(toc) |->
        [chapter_title |-> toc[k].chapter_title,
         reference_boolean |-> toc[k].reference_boolean]]

Endpoints == { "/extract-toc", "/match-toc-java", "/process-pdf" }

NoResponse == [kind |-> "none", book_title |-> "-", toc |-> <<>>]
ErrorResponse == [kind |-> "error", book_title |-> "-", toc |-> <<>>]
TocResponse(book_title, toc) == [kind |-> "toc", book_title |-> book_title, toc |-> toc]

\* A request as the endpoint starts on it.
\*   tmp_exists      the file of NamedTemporaryFile(delete=False) is on disk
\*   tmp_path_bound  'tmp_path' in locals()
\*   toc             the TOC taken from the pipeline (lines 186, 214, 244)
NewRequest(endpoint, key) ==
    [endpoint |-> endpoint, GEMINI_API_KEY |-> key, at |-> "create",
     tmp_exists |-> FALSE, tmp_path_bound |-> FALSE, called_match |-> FALSE,
     toc |-> <<>>, response |-> NoResponse]

InitEndpoint ==
    /\ \E endpoint \in Endpoints : \E key \in BOOLEAN :
          /\ request = NewRequest(endpoint, key)
          /\ API_KEY = key
    /\ pc = "start"
    /\ image_paths = <<>>
    /\ discovery_tasks = <<>>
    /\ discovery_results = <<>>
    /\ toc_page_indices = {}
    /\ all_parsed_results_pass1 = <<>>
    /\ verify_tasks = <<>>
    /\ returned = None
    /\ exit_line = 0
    /\ pages_dir = {}
    /\ runs = <<>>

EndpointFrame ==
    UNCHANGED << API_KEY, pc, image_paths, discovery_tasks, discovery_results,
                 toc_page_indices, all_parsed_results_pass1, verify_tasks,
                 returned, exit_line, pages_dir, runs >>

\* The finally clause of lines 198-201 (230-232, 261-263).
Finally(r) ==
    [r EXCEPT !.at = "finished",
              !.tmp_exists = IF r.tmp_path_bound THEN FALSE ELSE @]

\* Lines 181-185 (209-213, 238-242): the temporary file is created and
\* written, tmp_path is bound, and the pipeline is awaited.
EndpointCreate ==
    /\ request.at = "create"
    /\ request' = [request EXCEPT !.tmp_exists = TRUE, !.tmp_path_bound = TRUE,
                                  !.at = "pipeline"]
    /\ EndpointFrame

\* Lines 181-182 raise: NamedTemporaryFile itself (no file), or file.read()
\* or tmp.write() once the file is there. Line 183 is not reached; the
\* except clause answers and the finally clause runs.
EndpointCreateFails(file_created) ==
    /\ request.at = "create"
    /\ request' = Finally([request EXCEPT !.tmp_exists = file_created,
                                          !.response = ErrorResponse])
    /\ EndpointFrame

\* The await of line 185 (213, 242) returns and the endpoint runs to its
\* end: `outcome' is what process_pdf did, `headings_raise' whether
\* get_java_headings raised (line 71), `answer' the answer to the request of
\* line 142.
EndpointResume(outcome, headings_raise, answer) ==
    /\ request.at = "pipeline"
    /\ LET result == get_toc_from_new_logic(request.GEMINI_API_KEY, outcome)
           toc == TocOf(result)
           book_title == BookTitle(MetadataOfResult(result))
           final_chapters ==
               IF request.GEMINI_API_KEY
               THEN match_toc_with_java_headings_gemini(toc, answer) ELSE <<>>
       IN  request' =
             Finally(
               IF request.endpoint = "/extract-toc"
               THEN [request EXCEPT !.toc = toc,
                        !.response = TocResponse("-", FilteredToc(toc))]
               ELSE IF headings_raise
               THEN [request EXCEPT !.toc = toc, !.response = ErrorResponse]
               ELSE [request EXCEPT !.toc = toc,
                        !.called_match = request.GEMINI_API_KEY,
                        !.response = TocResponse(book_title, final_chapters)])
    /\ EndpointFrame

\* The request is cancelled while the endpoint awaits the pipeline: no
\* except clause takes CancelledError, the finally clause runs.
EndpointCancelled ==
    /\ request.at = "pipeline"
    /\ request' = Finally(request)
    /\ EndpointFrame

NextEndpoint ==
    \/ EndpointCreate
    \/ \E file_created \in BOOLEAN : EndpointCreateFails(file_created)
    \/ \E outcome \in PipelineOutcomes : \E headings_raise \in BOOLEAN :
          \E answer \in MatchAnswers : EndpointResume(outcome, headings_raise, answer)
    \/ EndpointCancelled

SpecEndpoint == InitEndpoint /\ [][NextEndpoint]_vars

TypeOK ==
    /\ API_KEY \in BOOLEAN
    /\ pc \in { "start", "render", "dispatch", "gather", "aggregate",
                "verify", "await_verify", "done", "raised" }
    /\ Len(image_paths) <= max_pages
    /\ exit_line \in { 0, 135, 181, 191, 211, 220, 227, 258 }

\* ------------------------------------------------- vocabulary of the claims
\* Every call of get_structured_data_from_images of the run.
AllCalls ==
    { discovery_tasks[w] : w \in 1..Len(discovery_tasks) }
        \cup { verify_tasks[v] : v \in 1..Len(verify_tasks) }

IsInvoke(entry) == entry.e = "invoke"
IsSleep(entry) == entry.e = "sleep"

\* The capability invocations of a call, in order, and its backoff delays.
Invocations(c) == SelectSeq(c.log, IsInvoke)
Delays(c) == SelectSeq(c.log, IsSleep)
Outcomes(c) == [k \in 1..Len(Invocations(c)) |-> Invocations(c)[k].how]

\* The outcome of a finished call.
EndedExhausted(c) == c.at = "done" /\ c.result.kind = "exhausted"
EndedFatal(c) == c.at = "done" /\ c.result.kind = "fatal"
EndedSuccess(c) == c.at = "done" /\ c.result.kind = "text"

\* The discovery rounds are over and the aggregation of lines 193-211 ran.
Aggregated ==
    \/ pc \in { "verify", "await_verify" }
    \/ pc = "done" /\ exit_line \in { 211, 227, 258 }

\* The run reached the verification call and that call ended as a failure.
VerificationFailed ==
    /\ verify_tasks # <<>>
    /\ \/ EndedExhausted(verify_tasks[Len(verify_tasks)])
       \/ EndedFatal(verify_tasks[Len(verify_tasks)])

\* A returned value that is a consolidated record (metadata and toc_entries).
IsRecord(value) == ~value.is_none

\* --------------------------------------------------------------------- C1
\* C1: when the verification call ends Fatal or Exhausted, process_pdf
\* aborts: it returns no consolidated record, hence no record carrying the
\* metadata chosen from the discovery results.
C1_VerificationFailureAborts ==
    (pc = "done" /\ VerificationFailed) => ~IsRecord(returned)

\* --------------------------------------------------------------------- C2
\* C2: the terminal outcomes are told apart by the returned value: the value
\* returned when discovery found nothing is not the value of a render
\* failure, and the value returned after a failed verification call is
\* neither of those two nor a consolidated record.
C2_OutcomesDistinguishable ==
    pc = "done" =>
        /\ exit_line = 211 => returned # ReturnedOnRenderFailure
        /\ VerificationFailed =>
              /\ returned # ReturnedOnRenderFailure
              /\ returned # ReturnedOnNoCandidates
              /\ ~IsRecord(returned)

\* --------------------------------------------------------------------- C3
\* C3: a call whose capability failed Transient on every attempt so far has
\* invoked it at most 3 times; it has returned exactly when the third
\* invocation failed, and what it returned is the Exhausted failure.
AlwaysTransient(c) ==
    \A k \in 1..Len(Outcomes(c)) : Outcomes(c)[k] = "Transient"

C3_ExhaustedAfterThree ==
    \A c \in AllCalls :
        AlwaysTransient(c) =>
            /\ Len(Invocations(c)) <= 3
            /\ c.at = "done" <=> Len(Invocations(c)) = 3
            /\ c.at = "done" => c.result = ExhaustedStr

C3_Witness ==
    \E c \in AllCalls :
        /\ Outcomes(c) = << "Transient", "Transient", "Transient" >>
        /\ EndedExhausted(c)

\* --------------------------------------------------------------------- C4
\* C4: an invocation that failed Fatal is the last thing its call did: the
\* call has returned the Fatal outcome, and no invocation and no backoff
\* delay follows it in the log, whatever number the attempt had.
C4_FatalEndsCall ==
    \A c \in AllCalls :
        \A k \in 1..Len(c.log) :
            (IsInvoke(c.log[k]) /\ c.log[k].how = "Fatal") =>
                /\ k = Len(c.log)
                /\ Len(Invocations(c)) \in 1..3
                /\ EndedFatal(c)

C4_Witness ==
    \E c \in AllCalls :
        /\ Outcomes(c) = << "Transient", "Transient", "Fatal" >>
        /\ EndedFatal(c)
        /\ Len(Delays(c)) = 2

\* --------------------------------------------------------------------- C5
\* C5: a call whose capability failed Transient twice and then answered
\* returns that answer, and its log is exactly: invocation, 1 second of
\* sleep, invocation, 2 seconds of sleep, invocation.
C5_TwoBackoffsThenSuccess ==
    \A c \in AllCalls :
        Outcomes(c) = << "Transient", "Transient", "Success" >> =>
            /\ c.at = "done"
            /\ c.result = c.log[Len(c.log)].text
            /\ c.result.kind = "text"
            /\ Len(c.log) = 5
            /\ IsInvoke(c.log[1])
            /\ IsSleep(c.log[2]) /\ c.log[2].delay = 1
            /\ IsInvoke(c.log[3])
            /\ IsSleep(c.log[4]) /\ c.log[4].delay = 2
            /\ IsInvoke(c.log[5])

C5_Witness ==
    \E c \in AllCalls :
        /\ Outcomes(c) = << "Transient", "Transient", "Success" >>
        /\ c.result.well_formed
        /\ << Delays(c)[1].delay, Delays(c)[2].delay >> = << 1, 2 >>

\* --------------------------------------------------------------------- C6
CeilDiv(n, w) == (n + w - 1) \div w

\* The window i (0-based) of n pages for window size w, as the claim has it.
ClaimedWindow(i, w, n) == { j \in 0..(n - 1) : i * w <= j /\ j < Min((i + 1) * w, n) }

\* `windows' partitions `paths' into ceil(N / w) windows, window i holding
\* the images of the indices of ClaimedWindow(i, w, N) in ascending order,
\* and every image being in exactly one window.
IsPartition(windows, paths, w) ==
    LET n == Len(paths) IN
    /\ Len(windows) = CeilDiv(n, w)
    /\ \A i \in 0..(Len(windows) - 1) :
          /\ Len(windows[i + 1]) = Cardinality(ClaimedWindow(i, w, n))
          /\ \A k \in 1..Len(windows[i + 1]) :
                windows[i + 1][k] = paths[i * w + k]
    /\ \A j \in 0..(n - 1) :
          \E i \in 1..Len(windows) :
              /\ \E k \in 1..Len(windows[i]) : windows[i][k] = paths[j + 1]
              /\ \A i2 \in 1..Len(windows) :
                    (\E k \in 1..Len(windows[i2]) : windows[i2][k] = paths[j + 1])
                        => i2 = i

Dispatched == pc \notin { "start", "render", "dispatch" } /\ exit_line \notin { 135, 181 }

\* The state the dispatch leaves: every call created, none has done anything.
JustDispatched ==
    pc = "gather" /\ \A w \in 1..Len(discovery_tasks) : discovery_tasks[w].log = <<>>

\* C6: the calls created by the dispatch partition the N rendered pages into
\* ceil(N / 5) windows, window i covering i*5 .. min((i+1)*5, N) - 1 in
\* ascending order, every index in exactly one window (none for N = 0); and
\* slicing the pages dispatched gives such a partition for every other
\* window size W >= 1 as well.
C6_WindowsPartitionPages ==
    /\ Dispatched =>
          /\ IsPartition([w \in 1..Len(discovery_tasks) |->
                              discovery_tasks[w].image_paths],
                         image_paths, chunk_size)
          /\ Len(image_paths) = 0 => discovery_tasks = <<>>
    /\ JustDispatched =>
          \A W \in 1..MaxChunk : IsPartition(Chunks(image_paths, W), image_paths, W)

C6_Witness ==
    /\ pc = "gather"
    /\ Len(image_paths) = 12
    /\ Len(discovery_tasks) = 3
    /\ discovery_tasks[3].image_paths = << 11, 12 >>

\* --------------------------------------------------------------------- C7
\* The window at position w (1-based) answered with at least one TOC entry.
HoldsTocEntry(w) ==
    /\ EndedSuccess(discovery_tasks[w])
    /\ discovery_tasks[w].result.well_formed
    /\ discovery_tasks[w].result.obj.toc_entries # <<>>

FlaggedWindows == { w \in 1..Len(discovery_tasks) : HoldsTocEntry(w) }

\* C7: after aggregation the candidate page set is the union of the whole
\* index ranges of the windows that answered with at least one TOC entry,
\* and of no other window; it lies within 0..N-1.
C7_CandidatesAreFlaggedWindows ==
    Aggregated =>
        /\ toc_page_indices =
              UNION { ClaimedWindow(w - 1, chunk_size, Len(image_paths)) :
                        w \in FlaggedWindows }
        /\ toc_page_indices \subseteq 0..(Len(image_paths) - 1)

C7_Witness ==
    /\ Aggregated
    /\ Len(image_paths) = 12
    /\ FlaggedWindows = { 1, 3 }
    /\ EndedExhausted(discovery_tasks[2])
    /\ toc_page_indices = { 0, 1, 2, 3, 4, 10, 11 }

\* --------------------------------------------------------------------- C8
\* C8: the verification call is issued only in a run where some window
\* answered with a TOC entry; a run where none did (also a run without any
\* window) has ended at line 211 once aggregation is over.
C8_NoCandidatesNoVerification ==
    FlaggedWindows = {} =>
        /\ verify_tasks = <<>>
        /\ Aggregated =>
              /\ pc = "done"
              /\ exit_line = 211
              /\ returned = ReturnedOnNoCandidates

C8_Witness ==
    /\ Aggregated
    /\ Len(discovery_tasks) = 2
    /\ FlaggedWindows = {}
    /\ EndedSuccess(discovery_tasks[1])
    /\ exit_line = 211

\* --------------------------------------------------------------------- C9
\* The page index of a rendered image.
IndexOf(path) == CHOOSE i \in 0..(Len(image_paths) - 1) : image_paths[i + 1] = path

\* C9: once aggregation found candidates and the pipeline went on, exactly
\* one verification call exists, and its images are those of the candidate
\* indices, each once, in strictly ascending index order.
C9_OneVerificationCallOverCandidates ==
    /\ Len(verify_tasks) <= 1
    /\ (Aggregated /\ toc_page_indices # {} /\ pc # "verify") => Len(verify_tasks) = 1
    /\ \A v \in 1..Len(verify_tasks) :
          LET paths == verify_tasks[v].image_paths IN
          /\ Len(paths) = Cardinality(toc_page_indices)
          /\ \A k \in 1..Len(paths) :
                \E i \in toc_page_indices : paths[k] = image_paths[i + 1]
          /\ \A k, l \in 1..Len(paths) :
                k < l => IndexOf(paths[k]) < IndexOf(paths[l])

C9_Witness ==
    /\ pc = "done"
    /\ Len(verify_tasks) = 1
    /\ toc_page_indices = { 0, 1, 2, 3, 4, 10, 11 }
    /\ verify_tasks[1].image_paths = << 1, 2, 3, 4, 5, 11, 12 >>

\* -------------------------------------------------------------------- C10
\* Some step of the call of window w is possible.
WindowCanStep(w) ==
    ENABLED ( \/ \E text \in DiscoveryTexts : DiscoveryReturn(w, text)
              \/ \E msg \in Messages : DiscoveryRaise(w, msg)
              \/ DiscoveryWake(w) )

\* C10: while a window has ended Exhausted, every window still running can
\* go on; the dispatch returns one result per window, at the position of the
\* window; and aggregation runs, adds no index of the Exhausted window and
\* adds every index of the windows that answered with a TOC entry.
C10_ExhaustedWindowIsIsolated ==
    \A x \in 1..Len(discovery_tasks) :
        EndedExhausted(discovery_tasks[x]) =>
            /\ \A w \in 1..Len(discovery_tasks) :
                  (pc = "gather" /\ discovery_tasks[w].at # "done") => WindowCanStep(w)
            /\ pc \notin { "gather" } =>
                  /\ Len(discovery_results) = Len(discovery_tasks)
                  /\ \A w \in 1..Len(discovery_tasks) :
                        discovery_results[w] = discovery_tasks[w].result
            /\ (pc = "gather" /\ \A w \in 1..Len(discovery_tasks) :
                                     discovery_tasks[w].at = "done")
                  => ENABLED Gather
            /\ pc = "aggregate" => ENABLED Aggregate
            /\ Aggregated =>
                  /\ toc_page_indices
                        \cap ClaimedWindow(x - 1, chunk_size, Len(image_paths)) = {}
                  /\ \A w \in FlaggedWindows :
                        ClaimedWindow(w - 1, chunk_size, Len(image_paths))
                            \subseteq toc_page_indices

C10_Witness ==
    /\ Aggregated
    /\ Len(discovery_tasks) = 3
    /\ EndedExhausted(discovery_tasks[1])
    /\ EndedFatal(discovery_tasks[2])
    /\ HoldsTocEntry(3)
    /\ toc_page_indices = { 10, 11 }
    /\ pc = "await_verify"

\* -------------------------------------------------------------------- C11
\* A call that has neither returned nor raised nor been cancelled.
InFlight(c) == c.at \in { "call", "sleep" }

\* process_pdf is past the await of line 191.
DispatchReturned == pc \notin { "start", "render", "dispatch", "gather" }

\* C11: whenever the dispatch has returned, with the results or with an
\* error, no discovery window is still in flight.
C11_DispatchReturnsAfterAllSettled ==
    DispatchReturned =>
        \A w \in 1..Len(discovery_tasks) : ~InFlight(discovery_tasks[w])

\* -------------------------------------------------------------------- C12
\* The capability answered window w with a text that json.loads rejects.
Unparseable(w) ==
    EndedSuccess(discovery_tasks[w]) /\ ~discovery_tasks[w].result.well_formed

\* C12: while a window's answer cannot be parsed, every window still
\* running can go on; gather hands every window its own result; aggregation
\* runs over all of them, adds no index of the unparseable window and adds
\* every index of each window that answered with a TOC entry.
C12_UnparseableWindowIsConfined ==
    \A x \in 1..Len(discovery_tasks) :
        Unparseable(x) =>
            /\ \A w \in 1..Len(discovery_tasks) :
                  (pc = "gather" /\ InFlight(discovery_tasks[w])) => WindowCanStep(w)
            /\ pc # "gather" =>
                  \A w \in 1..Len(discovery_tasks) :
                      /\ discovery_results[w] = discovery_tasks[w].result
                      /\ EndedSuccess(discovery_tasks[w]) =>
                            discovery_results[w] =
                                discovery_tasks[w].log[Len(discovery_tasks[w].log)].text
            /\ pc = "aggregate" => ENABLED Aggregate
            /\ Aggregated =>
                  /\ toc_page_indices
                        \cap ClaimedWindow(x - 1, chunk_size, Len(image_paths)) = {}
                  /\ toc_page_indices =
                        UNION { ClaimedWindow(w - 1, chunk_size, Len(image_paths)) :
                                  w \in FlaggedWindows }
                  /\ Len(all_parsed_results_pass1) =
                        Cardinality({ w \in 1..Len(discovery_tasks) : ~Unparseable(w)
                                        /\ JsonLoads(discovery_tasks[w].result).ok })

C12_Witness ==
    /\ pc = "await_verify"
    /\ Len(discovery_tasks) = 3
    /\ HoldsTocEntry(1)
    /\ Unparseable(2)
    /\ HoldsTocEntry(3)
    /\ toc_page_indices = { 0, 1, 2, 3, 4, 10, 11 }

\* -------------------------------------------------------------------- C18
\* process_pdf has ended, by a return or by an exception.
RunEnded == pc \in { "done", "raised" }

\* C18: when the run has ended, on whatever path, no page image written by
\* the run is left in the directory and none of its calls is in flight.
C18_ImagesReleasedOnEveryExit ==
    RunEnded =>
        /\ \A f \in pages_dir : f.by # ThisRun
        /\ \A c \in AllCalls : ~InFlight(c)

\* -------------------------------------------------------------------- C19
\* C19: after a render failure no extraction call exists, neither for a
\* discovery window nor for the verification.
C19_RenderFailureBeforeDispatch ==
    exit_line = 181 => (discovery_tasks = <<>> /\ verify_tasks = <<>>)

C19_Witness ==
    /\ pc = "done"
    /\ exit_line = 181
    /\ returned = ReturnedOnRenderFailure
    /\ AllCalls = {}

\* -------------------------------------------------------------------- C20
\* C20: a verification call exists only when every discovery window has
\* returned; while it is in flight no other call of the run is; the
\* aggregation runs only with every window returned; and the run gets past
\* line 220 to lines 222-258 only with the verification call returned.
C20_StagesInOrder ==
    /\ (pc \in { "aggregate", "verify" } \/ verify_tasks # <<>>) =>
          \A w \in 1..Len(discovery_tasks) : discovery_tasks[w].at = "done"
    /\ \A v \in 1..Len(verify_tasks) :
          InFlight(verify_tasks[v]) =>
              /\ Cardinality({ c \in AllCalls : InFlight(c) }) = 1
              /\ pc = "await_verify"
    /\ exit_line \in { 227, 258 } =>
          /\ Len(verify_tasks) = 1
          /\ verify_tasks[1].at = "done"

C20_Witness ==
    /\ pc = "done"
    /\ exit_line = 258
    /\ Len(discovery_tasks) = 3
    /\ Len(verify_tasks[1].log) = 5
    /\ \E w \in 1..3 : Len(discovery_tasks[w].log) = 5

\* -------------------------------------------------------------------- C13
\* The discovery windows whose result is an object that carries metadata,
\* and the number of non-null fields of that metadata.
MetadataWindows ==
    { w \in 1..Len(discovery_tasks) :
        /\ EndedSuccess(discovery_tasks[w])
        /\ discovery_tasks[w].result.well_formed
        /\ "metadata" \in DOMAIN discovery_tasks[w].result.obj }

MetadataOf(w) == discovery_tasks[w].result.obj.metadata

NonNullFields(w) ==
    Cardinality({ f \in DOMAIN MetadataOf(w) : MetadataOf(w)[f] # Null })

\* The lowest window among those of the largest count.
FirstOfLargest ==
    CHOOSE w \in MetadataWindows :
        \A x \in MetadataWindows :
            \/ NonNullFields(x) < NonNullFields(w)
            \/ NonNullFields(x) = NonNullFields(w) /\ w <= x

VerificationAnswered ==
    /\ Len(verify_tasks) = 1
    /\ EndedSuccess(verify_tasks[1])
    /\ verify_tasks[1].result.well_formed

\* C13: the metadata of the consolidated record is the metadata of the
\* discovery result with the most non-null fields, and among the results of
\* that largest count the one of the lowest window.
C13_MetadataOfFirstLargestCount ==
    (pc = "done" /\ exit_line = 258 /\ MetadataWindows # {}) =>
        /\ IsRecord(returned)
        /\ returned.metadata = MetadataOf(FirstOfLargest)

\* Counts [2, 0, 3, 3] in window order: the record has the metadata of the
\* third window, which differs from the one of the fourth.
C13_Witness ==
    /\ pc = "done"
    /\ exit_line = 258
    /\ Len(discovery_tasks) = 4
    /\ MetadataWindows = 1..4
    /\ [w \in 1..4 |-> NonNullFields(w)] = << 2, 0, 3, 3 >>
    /\ MetadataOf(3) # MetadataOf(4)
    /\ returned.metadata = MetadataOf(3)

\* -------------------------------------------------------------------- C14
\* C14: the record's metadata does not depend on the verification pass: the
\* run that has the same discovery results and a verification answer that
\* differs from this run's in its metadata only yields the same metadata.
C14_MetadataIgnoresVerification ==
    (pc = "done" /\ exit_line = 258 /\ VerificationAnswered) =>
        \A other \in RichVerifyTexts \cup VerifyTexts :
            (/\ other.well_formed
             /\ other.obj.toc_entries = verify_tasks[1].result.obj.toc_entries) =>
                LET out == Consolidated(other, all_parsed_results_pass1) IN
                /\ IsRecord(out.value)
                /\ out.value.metadata = returned.metadata

C14_Witness ==
    /\ pc = "done"
    /\ exit_line = 258
    /\ VerificationAnswered
    /\ verify_tasks[1].result.obj.metadata = MetaVerify
    /\ Text(ExtractionResult(MetaVerifyOther,
                             verify_tasks[1].result.obj.toc_entries))
           \in RichVerifyTexts
    /\ returned.metadata = MetaThreeB

\* -------------------------------------------------------------------- C15
\* The rearrangements of 1..n.
Rearrangements(n) ==
    { p \in [1..n -> 1..n] : \A i, j \in 1..n : p[i] = p[j] => i = j }

\* C15: the record's toc_entries are the entries of the verification answer
\* rearranged (each entry as often as there, none dropped, merged or added),
\* with non-decreasing page numbers, entries of one page in the order they
\* had in the verification answer.
C15_TocIsStableSortOfVerification ==
    (pc = "done" /\ exit_line = 258 /\ VerificationAnswered) =>
        LET given == verify_tasks[1].result.obj.toc_entries
            toc == returned.toc_entries
        IN  /\ Len(toc) = Len(given)
            /\ \A i \in 1..Len(toc) : \A j \in 1..Len(toc) :
                  i < j => toc[i].page_number <= toc[j].page_number
            /\ \E p \in Rearrangements(Len(given)) :
                  /\ \A i \in 1..Len(toc) : toc[i] = given[p[i]]
                  /\ \A i \in 1..Len(toc) : \A j \in 1..Len(toc) :
                        (i < j /\ toc[i].page_number = toc[j].page_number)
                            => p[i] < p[j]

\* Pages [20, 20, 10] of entries A, B, C come out as C, A, B.
C15_Witness ==
    /\ pc = "done"
    /\ exit_line = 258
    /\ VerificationAnswered
    /\ verify_tasks[1].result.obj.toc_entries =
           << TocEntry("A", 20), TocEntry("B", 20), TocEntry("C", 10) >>
    /\ returned.toc_entries =
           << TocEntry("C", 10), TocEntry("A", 20), TocEntry("B", 20) >>

\* -------------------------------------------------------------------- C16
VerifiedEmpty ==
    /\ VerificationAnswered
    /\ verify_tasks[1].result.obj.toc_entries = <<>>

\* C16: when the verification call succeeds with an empty TOC list (it is
\* only ever made over a non-empty candidate set), the run goes on to end
\* with a record of no toc_entries and the metadata chosen from discovery,
\* not with a failure or the no-candidates result.
C16_EmptyVerifiedTocIsARecord ==
    VerifiedEmpty =>
        /\ toc_page_indices # {}
        /\ pc = "await_verify" => ENABLED Consolidate
        /\ pc # "await_verify" =>
              /\ pc = "done"
              /\ exit_line = 258
              /\ IsRecord(returned)
              /\ returned.toc_entries = <<>>
              /\ MetadataWindows # {}
              /\ returned.metadata = MetadataOf(FirstOfLargest)

C16_Witness ==
    /\ VerifiedEmpty
    /\ pc = "done"
    /\ returned = ResultObj(MetaTwo, <<>>)
    /\ Cardinality(toc_page_indices) > 1

\* -------------------------------------------------------------------- C17
\* The names run r still has to open: the pages of its windows not yet
\* opened, and the targeted pages of the verification call once chosen.
StillToRead(r) ==
    CASE runs[r].pc = "gather" ->
             { runs[r].image_paths[k] :
                 k \in { i + 1 : i \in UNION { WindowIndices(w - 1, Len(runs[r].image_paths)) :
                                                 w \in runs[r].windows_left } } }
      [] runs[r].pc = "verify" ->
             { runs[r].targeted[k] : k \in 1..Len(runs[r].targeted) }
      [] OTHER -> {}

\* C17: concurrent runs share no mutable state: every image a run's calls
\* opened was rendered by that run, and every image an unfinished run still
\* has to read is in place as that run rendered it, whatever the other runs
\* did in between.
C17_ConcurrentRunsAreIsolated ==
    \A r \in RunIds :
        /\ \A f \in runs[r].opened : f.by = r
        /\ \A name \in StillToRead(r) :
              [name |-> name, by |-> r] \in pages_dir

\* -------------------------------------------------------------------- C23
\* C23: every failure outcome of a call (Exhausted or Fatal, whatever the
\* message of the underlying error) is a string that json.loads turns into
\* an object with the key "error".
C23_FailureOutcomesParseWithErrorKey ==
    \A c \in AllCalls :
        (EndedExhausted(c) \/ EndedFatal(c)) =>
            /\ JsonLoads(c.result).ok
            /\ "error" \in DOMAIN JsonLoads(c.result).value

\* -------------------------------------------------------------------- C25
\* Results a window can end with that carry no TOC entry: Exhausted, Fatal
\* with a message that parses and with one that does not, and a text that is
\* not JSON.
FailedResults == { ExhaustedStr, FatalStr(MsgPlain), FatalStr(MsgQuoted), Garbled }

\* C25: indices are attributed by window position only. After aggregation,
\* every window i that answered with entries has contributed exactly
\* i*5 .. min(i*5+5, N)-1, and replacing the result of any other window j by
\* a failed or unparseable one leaves the indices within window i as they
\* are.
C25_IndicesByWindowPosition ==
    (pc = "verify" \/ (pc = "done" /\ exit_line = 211)) =>
        LET n == Len(image_paths)
            Within(i) == ClaimedWindow(i - 1, chunk_size, n)
        IN  \A i \in 1..Len(discovery_tasks) :
              /\ HoldsTocEntry(i) => toc_page_indices \cap Within(i) = Within(i)
              /\ \A j \in 1..Len(discovery_tasks) : \A bad \in FailedResults :
                    j # i =>
                        AggregateFrom([discovery_results EXCEPT ![j] = bad],
                                      n, 1, {}, <<>>).indices \cap Within(i)
                            = toc_page_indices \cap Within(i)

\* Window 0 failed with a result that does not parse, window 1 is in the
\* place of an unparseable answer, window 2 has entries and contributes
\* 10 and 11 of a 12-page document.
C25_Witness ==
    /\ pc = "verify"
    /\ Len(image_paths) = 12
    /\ EndedFatal(discovery_tasks[1])
    /\ ~JsonLoads(discovery_tasks[1].result).ok
    /\ Unparseable(2)
    /\ HoldsTocEntry(3)
    /\ toc_page_indices = { 10, 11 }

C24_EmptyCase ==
    /\ pc = "done"
    /\ exit_line = 258
    /\ MetadataWindows = {}
    /\ returned.metadata = EmptyDict

\* -------------------------------------------------------------------- C22
\* The result each window ended with, in window order.
ResultPerWindow == [w \in 1..Len(discovery_tasks) |-> discovery_tasks[w].result]

\* C22: the outcome of a run is a function of the results per window in
\* window order (and of the verification result): whatever the order in
\* which the calls of the windows returned, the candidate set, the parsed
\* results the metadata is chosen from and the returned value are the ones
\* computed from the results taken window by window.
C22_OutcomeIndependentOfCompletionOrder ==
    (pc = "done" /\ exit_line \in { 211, 227, 258 }) =>
        LET agg == AggregateFrom(ResultPerWindow, Len(image_paths), 1, {}, <<>>)
        IN  /\ toc_page_indices = agg.indices
            /\ all_parsed_results_pass1 = agg.parsed
            /\ exit_line = 211 <=> agg.indices = {}
            /\ exit_line = 211 => returned = None
            /\ exit_line # 211 =>
                  returned = Consolidated(verify_tasks[1].result, agg.parsed).value

\* The first window returned after two retries and the second at once, with
\* different answers; the record is the one of the window order.
C22_Witness ==
    /\ pc = "done"
    /\ exit_line = 258
    /\ Len(discovery_tasks) = 2
    /\ Len(discovery_tasks[1].log) = 5
    /\ Len(discovery_tasks[2].log) = 1
    /\ discovery_tasks[1].result = Text(ExtractionResult(MetaOne, << TocEntry("A", 7) >>))
    /\ discovery_tasks[2].result = Text(ExtractionResult(MetaOne, <<>>))
    /\ Len(image_paths) = 7
    /\ toc_page_indices = { 0, 1, 2, 3, 4 }
    /\ returned.metadata = MetaOne

\* -------------------------------------------------------------------- C26
\* The seconds a call has slept in backoff so far.
RECURSIVE SumOfDelays(_)
SumOfDelays(entries) ==
    IF entries = <<>> THEN 0
    ELSE entries[1].delay + SumOfDelays(Tail(entries))

\* The run is over with a record, with the no-candidates result or with a
\* failure, and each of its calls has returned.
Terminal ==
    /\ pc = "done"
    /\ exit_line \in { 135, 181, 211, 227, 258 }
    /\ \A c \in AllCalls : c.at = "done"

\* C26: when every invocation of the capability eventually returns or
\* raises, no call ever makes more than 3 invocations or sleeps more than 3
\* seconds of backoff in total, and every run eventually is over, with a
\* record, the no-candidates result or a failure, all its calls returned.
C26_CallsSettleAndRunsEnd ==
    /\ [](\A c \in AllCalls :
            /\ Len(Invocations(c)) <= 3
            /\ SumOfDelays(Delays(c)) <= 3)
    /\ <>Terminal

\* A run that ended with a record after a discovery call used up its three
\* invocations and the verification call answered at the third.
C26_Witness ==
    /\ Terminal
    /\ exit_line = 258
    /\ \E w \in 1..Len(discovery_tasks) :
          /\ Len(Invocations(discovery_tasks[w])) = 3
          /\ SumOfDelays(Delays(discovery_tasks[w])) = 3
          /\ EndedExhausted(discovery_tasks[w])
    /\ Len(Invocations(verify_tasks[1])) = 3
    /\ SumOfDelays(Delays(verify_tasks[1])) = 3
    /\ EndedSuccess(verify_tasks[1])

\* -------------------------------------------------------------------- C21
\* The page number of a chapter, under the key the matching answer uses or
\* the one of the pipeline.
PageOf(chapter) ==
    IF "pageNumber" \in DOMAIN chapter THEN chapter.pageNumber
    ELSE chapter.page_number

\* The endpoint answered with the TOC of the matching step.
AnsweredWithMatch ==
    /\ request.endpoint \in { "/match-toc-java", "/process-pdf" }
    /\ request.at = "finished"
    /\ request.response.kind = "toc"

\* C21: the reconciled TOC in the answer of /process-pdf and /match-toc-java
\* has no more chapters than the TOC of the pipeline (none when the pipeline
\* produced none), and its page numbers never decrease along the list.
C21_ReconciledTocWithinCanonical ==
    AnsweredWithMatch =>
        LET toc == request.response.toc IN
        /\ Len(toc) <= Len(request.toc)
        /\ \A i \in 1..Len(toc) : \A j \in 1..Len(toc) :
              i < j => PageOf(toc[i]) <= PageOf(toc[j])

\* -------------------------------------------------------------------- C27
\* C27: once a request has finished, on the success path or on an error
\* path, the temporary file of the upload is gone.
C27_TemporaryFileRemoved ==
    request.at = "finished" => ~request.tmp_exists

====
